---- MODULE Spec2Model ----
(***************************************************************************)
(* Model of capture.js: the per-registrant evidence capture pipeline.      *)
(*                                                                         *)
(* One browser page is driven through the registrants of the input list,   *)
(* one after the other.  For each registrant processRegistrant navigates   *)
(* to its page, saves screenshots into a directory named by the numeric id *)
(* of the address, then zips the directory, uploads the zip and removes    *)
(* the local copies.  The browser, the file system and the blob store are  *)
(* the environment: every call that can fail is a nondeterministic choice  *)
(* between its outcomes.  The optional PDF sibling of a screenshot         *)
(* (page.pdf, errors swallowed) writes no raster file and is left out.     *)
(***************************************************************************)
EXTENDS Integers, Sequences, FiniteSets, TLC

\* ---------------------------------------------------------------- bounds
MaxEntities == 2

\* ------------------------------------------------------------ vocabulary
Null == "null"
Undefined == "undefined"

\* An address is its query parameters eventId and id, each a sequence of
\* characters, empty when the parameter is missing.  Two of the addresses
\* have no id.
UrlSet == { [ev |-> <<"9">>, id |-> <<"7">>],
            [ev |-> <<"9">>, id |-> <<>>],
            [ev |-> <<>>, id |-> <<>>] }

Digits == {"0", "1", "2", "3", "4", "5", "6", "7", "8", "9"}

\* The capture group of /[?&]id=(\d+)/ : the longest prefix of digits.
RECURSIVE DigitPrefix(_)
DigitPrefix(s) ==
  IF s = <<>> \/ Head(s) \notin Digits THEN <<>>
  ELSE <<Head(s)>> \o DigitPrefix(Tail(s))

\* const regId = idMatch ? idMatch[1] : 'unknown'
RegIdOf(u) ==
  IF DigitPrefix(u.id) = <<>> THEN <<"unknown">> ELSE DigitPrefix(u.id)

RegIds == { RegIdOf(u) : u \in UrlSet }

\* Raster files a job can write into the registrant's directory.
F01 == "01_Attendance_Status_Proof.png"
F02 == "02_Contact_Details.png"
F03 == "03_Ticket_Email_Preview.png"
F03full == "03_Ticket_Email_Preview__full.png"
F04 == "04_QR_Code_Ticket_Email.png"
F05email == "05_Confirmation_email.png"
F05full == "05_Confirmation_full.png"
F06 == "06_Invoice.png"
NoFile == "nofile"
FileNames == {F01, F02, F03, F03full, F04, F05email, F05full, F06}

Kinds == {"attendance", "contact", "confirmation", "invoice", "ticket", "qr"}

FilesOf(k) ==
  CASE k = "attendance" -> {F01}
    [] k = "contact" -> {F02}
    [] k = "confirmation" -> {F05email, F05full}
    [] k = "invoice" -> {F06}
    [] k = "ticket" -> {F03, F03full}
    [] k = "qr" -> {F04}

\* What the registrant page offers for one of the two Actions documents:
\*   none     - nothing
\*   static   - an anchor with a matching href that is always in the DOM
\*   menulink - a matching anchor that is in the DOM only while the Actions
\*              menu is open (it is also a menu item)
\*   item     - a menu item with a matching label and no matching href
LinkFeatures == {"none", "static", "menulink", "item"}
NeedsMenu == {"menulink", "item"}

HomePages ==
  { h \in [hasActions : BOOLEAN, conf : LinkFeatures, inv : LinkFeatures] :
      (h.conf \in NeedsMenu \/ h.inv \in NeedsMenu) => h.hasActions }
NoHome == [hasActions |-> FALSE, conf |-> "none", inv |-> "none"]

\* The waits run on the page since its last navigation: none, the wait for
\* networkidle alone (line 439), or waitForSpinnerGone (lines 464, 485), the
\* wait for the spinner followed by the wait for networkidle.
Gates == {"none", "network", "full"}

\* The surface the page shows: nothing yet, the registrant page, or any
\* surface reached from it.
Locs == {"blank", "home", "other"}

VARIABLES
  urls,             \* the addresses built from the CSV rows (main, 555-565)
  idx,              \* position of the for-loop over urls
  pc,               \* the statement of processRegistrant / main to run next
  result,           \* per entity, the outcome line of the run log
  dirs,             \* registrant directories that exist under the out root
  leftover,         \* directories holding raster files of an earlier job
  zips,             \* archives that exist in os.tmpdir()
  remote,           \* blobs that exist in the container
  loc,              \* the surface the page currently shows
  menuOpen,         \* whether the Actions menu of the page is open
  gated,            \* the waits run on the page since its last navigation
  home,             \* what the registrant page offers, while the job uses it
  confirmationHref, \* local of processRegistrant
  invoiceHref,      \* local of processRegistrant
  joblog,           \* console lines of the current job
  saved,            \* raster files the current job wrote into its directory
  exitCode,         \* process.exitCode, the status when the process ends
  fn,               \* the function applied on its own, "none" in a run
  arg,              \* its input: what the page it is given holds
  ret,              \* its result, once it has returned
  returned          \* whether it has returned

vars == <<urls, idx, pc, result, dirs, leftover, zips, remote, loc, menuOpen,
          gated,
          home, confirmationHref, invoiceHref, joblog, saved, exitCode,
          fn, arg, ret, returned>>

fsVars == <<dirs, leftover, zips, remote>>
pageVars == <<loc, menuOpen, gated>>
localVars == <<home, confirmationHref, invoiceHref>>
jobVars == <<joblog, saved>>
fnVars == <<fn, arg, ret, returned>>

Url == urls[idx]
Reg == RegIdOf(urls[idx])

Init ==
  /\ urls \in UNION { [1..n -> UrlSet] : n \in 0..MaxEntities }
  /\ idx = 1
  /\ pc = "load"
  /\ result = [i \in 1..Len(urls) |-> "notstarted"]
  /\ dirs = {}
  /\ leftover = {}
  /\ zips = {}
  /\ remote = {}
  /\ loc = "blank"
  /\ menuOpen = FALSE
  /\ gated = "none"
  /\ home = NoHome
  /\ confirmationHref = Null
  /\ invoiceHref = Null
  /\ joblog = {}
  /\ saved = {}
  /\ exitCode = 0
  /\ fn = "none"
  /\ arg = <<>>
  /\ ret = <<>>
  /\ returned = FALSE

\* ------------------------------------------------------------ process start
\* buildAzureContainerClient, lines 64-82: which of AZURE_BLOB_CONTAINER,
\* AZURE_STORAGE_CONNECTION_STRING and AZURE_BLOB_SAS_URL are set decides
\* whether a client is returned or an Error is thrown.
BuildAzureContainerClient(container, conn, sasUrl) ==
  IF ~container THEN "throw"
  ELSE IF conn THEN "client_conn"
  ELSE IF sasUrl THEN "client_sas"
  ELSE "throw"

\* The rest of the frame of the statements that run before the loop.
startFrame == <<urls, idx, result, dirs, leftover, zips, remote, loc, gated,
                menuOpen, home, confirmationHref, invoiceHref, joblog, saved,
                fnVars>>

\* process.exit(code), or an uncaught exception / unhandled rejection, which
\* ends the process with status 1.
ExitWith(code) ==
  /\ exitCode' = code
  /\ pc' = "exited"

\* line 127, at module load, before main is entered: an Error thrown here is
\* uncaught.
LoadModule ==
  /\ pc = "load"
  /\ \E container \in BOOLEAN, conn \in BOOLEAN, sasUrl \in BOOLEAN :
       IF BuildAzureContainerClient(container, conn, sasUrl) = "throw"
       THEN ExitWith(1)
       ELSE /\ pc' = "main"
            /\ UNCHANGED exitCode
  /\ UNCHANGED startFrame

\* main, lines 547-570, up to the loop: --save-session ends with status 0;
\* a missing --in, or rows that give no address, end with status 1 (urls is
\* what the rows of --in give, nothing without --in); chromium.launch or
\* newContext may reject, and nothing catches the rejection.
Main ==
  /\ pc = "main"
  /\ \E saveSession \in BOOLEAN, launchOk \in BOOLEAN,
        hasIn \in (IF urls = <<>> THEN BOOLEAN ELSE {TRUE}) :
       IF saveSession THEN ExitWith(0)
       ELSE IF ~hasIn THEN ExitWith(1)
       ELSE IF Len(urls) = 0 THEN ExitWith(1)
       ELSE IF ~launchOk THEN ExitWith(1)
       ELSE /\ pc' = "start"
            /\ UNCHANGED exitCode
  /\ UNCHANGED startFrame

\* ------------------------------------------------------- leaving the job
\* processRegistrant is over for urls[idx]: its locals are gone and the
\* for-loop moves on.  What the job wrote stays in its directory unless the
\* directory was removed.
LeaveJob(res, removed) ==
  /\ result' = [result EXCEPT ![idx] = res]
  /\ idx' = idx + 1
  /\ pc' = "start"
  /\ leftover' = IF removed THEN leftover \ {Reg}
                 ELSE IF saved # {} THEN leftover \cup {Reg}
                 ELSE leftover
  /\ home' = NoHome
  /\ confirmationHref' = Null
  /\ invoiceHref' = Null
  /\ joblog' = {}
  /\ saved' = {}
  /\ UNCHANGED <<fnVars, exitCode, urls>>

\* A mutant of MainCatch: the loop body without its try/catch, the rejection
\* leaves the loop and the run ends.
MainNoCatch(kind) ==
  /\ result' = [result EXCEPT ![idx] = kind]
  /\ pc' = "done"
  /\ leftover' = IF saved # {} THEN leftover \cup {Reg} ELSE leftover
  /\ home' = NoHome
  /\ confirmationHref' = Null
  /\ invoiceHref' = Null
  /\ joblog' = {}
  /\ saved' = {}
  /\ UNCHANGED <<fnVars, exitCode, urls, idx>>

\* An error thrown out of processRegistrant is caught by the for-loop of
\* main, logged with its message, and the loop continues.
MainCatch(kind) == LeaveJob(kind, FALSE)

\* page.screenshot / locator.screenshot wrote the file f.
Save(f) == saved' = saved \cup {f}

\* The raster files of kind k the current job has put into its directory.
SavedOf(k) == saved \cap FilesOf(k)

\* ------------------------------------------------------------- main loop
\* processRegistrant, lines 437-449: page.goto(registrantUrl) throws on a
\* navigation failure, before the directory is made; otherwise the directory
\* is created (mkdirSync recursive: an existing one is kept as it is).
NavigateHome ==
  /\ pc = "start"
  /\ idx <= Len(urls)
  /\ \E navOk \in BOOLEAN :
       IF navOk
       THEN /\ \E h \in HomePages : home' = h
            /\ loc' = "home"
            /\ menuOpen' = FALSE
            /\ gated' = "network"
            /\ dirs' = dirs \cup {Reg}
            /\ pc' = "attendance"
            /\ result' = [result EXCEPT ![idx] = "running"]
            /\ UNCHANGED <<fnVars, exitCode, urls, idx, leftover, zips, remote,
                           confirmationHref, invoiceHref, jobVars>>
       ELSE /\ MainCatch("errorNav")
            /\ UNCHANGED <<dirs, zips, remote, pageVars>>

\* main, lines 571-581: the loop is over, withBrowser returns.
Finish ==
  /\ pc = "start"
  /\ idx > Len(urls)
  /\ pc' = "done"
  /\ UNCHANGED <<fnVars, exitCode, urls, idx, result, fsVars, pageVars, localVars, jobVars>>

\* ---------------------------------------------------------- capture steps
\* captureFullPage called directly from processRegistrant (no try around
\* it): the screenshot either writes the file and logs it, or throws, and the
\* error leaves processRegistrant.
FullPageStep(f, next) ==
  \E shotOk \in BOOLEAN :
    IF shotOk
    THEN /\ Save(f)
         /\ joblog' = joblog \cup {"ok_" \o f}
         /\ pc' = next
         /\ UNCHANGED <<fnVars, exitCode, urls, idx, result, fsVars, pageVars, localVars>>
    ELSE /\ MainCatch("errorCapture")
         /\ UNCHANGED <<dirs, zips, remote, pageVars>>

\* A mutant of CaptureAttendance: a failed screenshot is swallowed and the
\* job goes on without the file.
CaptureAttendanceSwallow ==
  /\ pc = "attendance"
  /\ \E shotOk \in BOOLEAN :
       IF shotOk
       THEN /\ Save(F01)
            /\ joblog' = joblog \cup {"ok_" \o F01}
       ELSE UNCHANGED <<saved, joblog>>
  /\ pc' = "contact"
  /\ UNCHANGED <<fnVars, exitCode, urls, idx, result, fsVars, pageVars, localVars>>

\* 01) Attendance Status / Proof, line 452
CaptureAttendance ==
  /\ pc = "attendance"
  /\ FullPageStep(F01, "contact")

\* 02) Contact Details, line 455
CaptureContact ==
  /\ pc = "contact"
  /\ FullPageStep(F02, "resolve_conf")

\* ------------------------------------------------------------- resolver
\* findActionHrefByUrlContains: if the Actions button is visible it is
\* clicked (errors swallowed) and the menu is then in the state clicked;
\* then the anchors in the DOM are searched for the needle.  The value is
\* the absolute address found or null, and the state of the menu.
FindActionHref(needle, feature, buttonVisible, open, clicked) ==
  LET openAfter == IF buttonVisible THEN clicked ELSE open
      found == feature = "static" \/ (feature = "menulink" /\ openAfter)
  IN [href |-> IF found THEN "href_" \o needle ELSE Null,
      open |-> openAfter]

\* line 458
ResolveConfirmation ==
  /\ pc = "resolve_conf"
  /\ \E clicked \in BOOLEAN :
       LET r == FindActionHref("confirmation", home.conf, home.hasActions,
                               menuOpen, clicked)
       IN /\ confirmationHref' = r.href
          /\ menuOpen' = r.open
  /\ pc' = "resolve_inv"
  /\ UNCHANGED <<fnVars, exitCode, urls, idx, result, fsVars, loc, gated, home,
                 invoiceHref, jobVars>>

\* A mutant of ResolveInvoice: the job goes straight on to the invoice
\* capture, ahead of the confirmation capture.
ResolveInvoiceThenInvoice ==
  /\ pc = "resolve_inv"
  /\ \E clicked \in BOOLEAN :
       LET r == FindActionHref("invoice", home.inv, home.hasActions,
                               menuOpen, clicked)
       IN /\ invoiceHref' = r.href
          /\ menuOpen' = r.open
  /\ pc' = "invoice"
  /\ UNCHANGED <<fnVars, exitCode, urls, idx, result, fsVars, loc, gated, home,
                 confirmationHref, jobVars>>

\* line 459
ResolveInvoice ==
  /\ pc = "resolve_inv"
  /\ \E clicked \in BOOLEAN :
       LET r == FindActionHref("invoice", home.inv, home.hasActions,
                               menuOpen, clicked)
       IN /\ invoiceHref' = r.href
          /\ menuOpen' = r.open
  /\ pc' = "confirmation"
  /\ UNCHANGED <<fnVars, exitCode, urls, idx, result, fsVars, loc, gated, home,
                 confirmationHref, jobVars>>


\* ------------------------------------------------- confirmation capture
\* captureConfirmationEmail, lines 217-240.  The page has an iframe or not,
\* has an element matching the email selectors or not; each screenshot
\* succeeds or throws.  The value is the file written (or none), the lines
\* logged, whether the function threw, and the surface the file shows: the
\* body of the first iframe, the first element matching the selectors, or
\* the page.
CaptureConfirmationEmail(hasIframe, iframeOk, hasCand, candOk, fullOk) ==
  IF hasIframe /\ iframeOk
  THEN [file |-> F05email, log |-> {"ok_" \o F05email}, threw |-> FALSE,
        surface |-> "iframe"]
  ELSE IF hasCand
  THEN IF candOk
       THEN [file |-> F05email, log |-> {"ok_" \o F05email}, threw |-> FALSE,
             surface |-> "region"]
       ELSE [file |-> NoFile, log |-> {}, threw |-> TRUE, surface |-> "none"]
  ELSE IF fullOk
  THEN [file |-> F05full, log |-> {"warn_no_email_body_full_page"},
        threw |-> FALSE, surface |-> "page"]
  ELSE [file |-> NoFile, log |-> {}, threw |-> TRUE, surface |-> "none"]

\* Every result captureConfirmationEmail can have on some page.
ConfirmationCaptures ==
  { CaptureConfirmationEmail(a, b, c, d, e) : a \in BOOLEAN, b \in BOOLEAN,
      c \in BOOLEAN, d \in BOOLEAN, e \in BOOLEAN }

\* A mutant of CaptureFullPage: a failed screenshot is swallowed, the function
\* returns normally without a file.
CaptureFullPageSwallow(f, shotOk) ==
  IF shotOk
  THEN [file |-> f, log |-> {"ok_" \o f}, threw |-> FALSE]
  ELSE [file |-> NoFile, log |-> {}, threw |-> FALSE]

\* captureFullPage as a value: the screenshot writes f and logs it, or throws.
CaptureFullPage(f, shotOk) ==
  IF shotOk
  THEN [file |-> f, log |-> {"ok_" \o f}, threw |-> FALSE]
  ELSE [file |-> NoFile, log |-> {}, threw |-> TRUE]

FullPageCaptures(f) == { CaptureFullPage(f, ok) : ok \in BOOLEAN }

\* The effect of a capture on the directory and on the console.
ApplyCapture(r, extraLog) ==
  /\ IF r.file # NoFile THEN Save(r.file) ELSE UNCHANGED saved
  /\ joblog' = joblog \cup r.log \cup extraLog

\* --------------------------------------------------------- click fallback
\* openActionsMenu, lines 242-246: waits for the Actions button to be
\* visible (throws on timeout), then clicks it unconditionally.  Clicking a
\* closed menu opens it; what clicking an open menu does is up to the page
\* (reopen).  The value: whether it threw, and the state of the menu.
OpenActionsMenu(buttonVisible, open, clickOk, reopen) ==
  IF ~buttonVisible \/ ~clickOk
  THEN [threw |-> TRUE, open |-> open]
  ELSE [threw |-> FALSE, open |-> IF open THEN reopen ELSE TRUE]

\* Lines 468-479 and 489-500, up to the capture: open the menu, click the
\* item whose label matches; the click needs the item to exist and to be
\* visible, that is the menu to be open.  target is the surface to capture:
\* a pop-up, the page after a navigation, or the unchanged page when the
\* click caused neither.  The value: whether the capture is reached, the
\* state of the menu, and the target.
ClickFallback(buttonVisible, itemPresent, open, clickOk, reopen, target) ==
  LET m == OpenActionsMenu(buttonVisible, open, clickOk, reopen)
  IN IF m.threw THEN [reached |-> FALSE, open |-> m.open, target |-> "none"]
     ELSE IF ~(itemPresent /\ m.open)
     THEN [reached |-> FALSE, open |-> m.open, target |-> "none"]
     ELSE [reached |-> TRUE, open |-> m.open, target |-> target]

Targets == {"popup", "nav", "none"}

\* The Actions button and the menu item of a kind on the page shown now.  On
\* the registrant page they are what `home` says; another surface has them
\* or not (other).
ButtonVisibleHere(other) == IF loc = "home" THEN home.hasActions ELSE other
ItemHere(feature, other) ==
  IF loc = "home" THEN feature \in NeedsMenu ELSE other

\* The try block of a click fallback for kind k: the capture, when reached,
\* has one of the results in captures; every error is swallowed by the
\* catch, and the job goes on to next in all cases.  After the last step
\* that consults the Actions control the offer of the registrant page is
\* forgotten.
ClickFallbackStep(k, feature, captures, next, last) ==
  \E other \in BOOLEAN, clickOk \in BOOLEAN, reopen \in BOOLEAN,
     target \in Targets, menuAfter \in BOOLEAN :
    LET c == ClickFallback(ButtonVisibleHere(other), ItemHere(feature, other),
                           menuOpen, clickOk, reopen, target)
    IN /\ IF c.reached
          THEN /\ \E r \in captures :
                    ApplyCapture(r, {"warn_click_fallback_" \o k})
               /\ loc' = IF c.target = "nav" THEN "other" ELSE loc
               /\ menuOpen' = IF c.target = "nav" \/ loc # "home"
                              THEN FALSE ELSE menuAfter
               /\ gated' = IF c.target = "nav" THEN "none" ELSE gated
          ELSE /\ joblog' = joblog \cup {"warn_click_fallback_" \o k}
               /\ menuOpen' = IF loc = "home" THEN c.open ELSE FALSE
               /\ UNCHANGED <<saved, loc, gated>>
       /\ pc' = next
       /\ home' = IF last THEN NoHome ELSE home
       /\ UNCHANGED <<fnVars, exitCode, urls, idx, result, fsVars, confirmationHref,
                      invoiceHref>>

\* The branch with a resolved address: page.goto (a failure leaves
\* processRegistrant), waitForSpinnerGone with its errors swallowed, then the
\* capture, whose error also leaves processRegistrant.  The gate has been
\* run on the page, to its end or to its timeout.
HrefStep(captures, next, last) ==
  \E navOk \in BOOLEAN :
    IF ~navOk
    THEN /\ MainCatch("errorNav")
         /\ UNCHANGED <<dirs, zips, remote, pageVars>>
    ELSE /\ loc' = "other"
         /\ menuOpen' = FALSE
         /\ gated' = "full"
         /\ \E r \in captures :
              IF r.threw
              THEN /\ MainCatch("errorCapture")
                   /\ UNCHANGED <<dirs, zips, remote>>
              ELSE /\ ApplyCapture(r, {})
                   /\ pc' = next
                   /\ home' = IF last THEN NoHome ELSE home
                   /\ UNCHANGED <<fnVars, exitCode, urls, idx, result, fsVars,
                                  confirmationHref, invoiceHref>>

\* 05) Confirmation, lines 462-480
CaptureConfirmation ==
  /\ pc = "confirmation"
  /\ IF confirmationHref # Null
     THEN HrefStep(ConfirmationCaptures, "invoice", FALSE)
     ELSE ClickFallbackStep("confirmation", home.conf, ConfirmationCaptures,
                            "invoice", FALSE)

\* 06) Invoice, lines 483-501
CaptureInvoice ==
  /\ pc = "invoice"
  /\ IF invoiceHref # Null
     THEN HrefStep(FullPageCaptures(F06), "ticket", TRUE)
     ELSE ClickFallbackStep("invoice", home.inv, FullPageCaptures(F06),
                            "ticket", TRUE)

\* ------------------------------------------------------------ ticket email
\* getSendEmailHref, lines 306-335: an anchor to the send-email page on the
\* current page, else a form with that action, else an address built from
\* the digits of id and eventId of the registrant address, else null.
GetSendEmailHref(linkHere, u) ==
  IF linkHere = "anchor" THEN "send_anchor"
  ELSE IF linkHere = "form" THEN "send_form"
  ELSE IF DigitPrefix(u.id) # <<>> /\ DigitPrefix(u.ev) # <<>>
  THEN "send_constructed"
  ELSE Null

SendLinks == {"none", "anchor", "form"}

\* What `if (!ok)` tests.
Truthy(v) == v = "true"

\* captureIframeBySrc, lines 341-387: waitForSelector throws when the
\* preview iframe does not appear; without a content frame the whole page is
\* saved under the __full name; otherwise the html root of the frame is
\* saved.  No path returns a value.
CaptureIframeBySrc(selectorFound, frameResolved, fullOk, frameOk) ==
  IF ~selectorFound
  THEN [file |-> NoFile, log |-> {}, threw |-> TRUE, ret |-> Undefined]
  ELSE IF ~frameResolved
  THEN IF fullOk
       THEN [file |-> F03full, log |-> {"warn_no_content_frame"},
             threw |-> FALSE, ret |-> Undefined]
       ELSE [file |-> NoFile, log |-> {"warn_no_content_frame"},
             threw |-> TRUE, ret |-> Undefined]
  ELSE IF frameOk
  THEN [file |-> F03, log |-> {"ok_" \o F03}, threw |-> FALSE,
        ret |-> Undefined]
  ELSE [file |-> NoFile, log |-> {}, threw |-> TRUE, ret |-> Undefined]

IframeCaptures ==
  { CaptureIframeBySrc(a, b, c, d) : a \in BOOLEAN, b \in BOOLEAN,
      c \in BOOLEAN, d \in BOOLEAN }

\* 03) Ticket Email Preview, lines 505-517; the whole step is in a try whose
\* catch logs a warning.
CaptureTicketEmail ==
  /\ pc = "ticket"
  /\ \E linkHere \in SendLinks, navOk \in BOOLEAN :
       LET sendEmailHref == GetSendEmailHref(linkHere, Url)
       IN IF sendEmailHref = Null
          THEN UNCHANGED <<saved, joblog, pageVars>>
          ELSE IF ~navOk
          THEN /\ joblog' = joblog \cup {"warn_could_not_capture_ticket"}
               /\ UNCHANGED <<saved, pageVars>>
          ELSE /\ loc' = "other"
               /\ menuOpen' = FALSE
               /\ gated' = "none"
               /\ \E r \in IframeCaptures :
                    IF r.threw
                    THEN ApplyCapture(r, {"warn_could_not_capture_ticket"})
                    ELSE ApplyCapture(r,
                           IF ~Truthy(r.ret)
                           THEN {"warn_iframe_not_found_full_page"} ELSE {})
  /\ pc' = "qr"
  /\ UNCHANGED <<fnVars, exitCode, urls, idx, result, fsVars, localVars>>

\* 04) QR Code Ticket Email, lines 521-532, all errors swallowed: the first
\* send-email anchor or form of the current page, if visible; an anchor is
\* followed, a form has no href and the current page is captured.
CaptureQr ==
  /\ pc = "qr"
  /\ \E qrLink \in SendLinks, navOk \in BOOLEAN :
       IF qrLink = "none" \/ (qrLink = "anchor" /\ ~navOk)
       THEN UNCHANGED <<saved, joblog, pageVars>>
       ELSE /\ loc' = IF qrLink = "anchor" THEN "other" ELSE loc
            /\ menuOpen' = IF qrLink = "anchor" THEN FALSE ELSE menuOpen
            /\ gated' = IF qrLink = "anchor" THEN "none" ELSE gated
            /\ \E r \in FullPageCaptures(F04) : ApplyCapture(r, {})
  /\ pc' = "zip"
  /\ UNCHANGED <<fnVars, exitCode, urls, idx, result, fsVars, localVars>>

\* ---------------------------------------------------------------- packaging
\* The catch of lines 541-543: "Azure upload failed. Keeping local folder."
\* with the message of the error; processRegistrant then returns normally.
PackagingCatch(kind) == LeaveJob(kind, FALSE)

\* A mutant of ZipDirectory: packaging does not wait for the QR step, the
\* archive is made while that step is still to write its file.
ZipDirectoryBeforeQr ==
  /\ pc \in {"qr", "zip"}
  /\ \E zipOk \in BOOLEAN, partial \in BOOLEAN :
       IF zipOk
       THEN /\ zips' = zips \cup {Reg}
            /\ pc' = IF pc = "qr" THEN "qr" ELSE "upload"
            /\ UNCHANGED <<fnVars, exitCode, urls, idx, result, leftover, localVars, jobVars>>
       ELSE /\ zips' = IF partial THEN zips \cup {Reg} ELSE zips
            /\ PackagingCatch("failedZip")
  /\ UNCHANGED <<dirs, remote, pageVars>>

\* zipDirectory, lines 85-99, called at line 120: the archive is written to
\* os.tmpdir(); when it fails the write stream may already have created the
\* file.
ZipDirectory ==
  /\ pc = "zip"
  /\ \E zipOk \in BOOLEAN, partial \in BOOLEAN :
       IF zipOk
       THEN /\ zips' = zips \cup {Reg}
            /\ pc' = "upload"
            /\ UNCHANGED <<fnVars, exitCode, urls, idx, result, leftover, localVars, jobVars>>
       ELSE /\ zips' = IF partial THEN zips \cup {Reg} ELSE zips
            /\ PackagingCatch("failedZip")
  /\ UNCHANGED <<dirs, remote, pageVars>>

\* A mutant of UploadZip: the cleanup runs in a finally, also after a failed
\* upload.
UploadZipCleanupAlways ==
  /\ pc = "upload"
  /\ \E upOk \in BOOLEAN :
       IF upOk
       THEN /\ remote' = remote \cup {Reg}
            /\ pc' = "unlink"
            /\ UNCHANGED <<fnVars, exitCode, urls, idx, result, localVars, jobVars, dirs,
                           leftover, zips>>
       ELSE /\ LeaveJob("failedUpload", TRUE)
            /\ zips' = zips \ {Reg}
            /\ dirs' = dirs \ {Reg}
            /\ UNCHANGED remote
  /\ UNCHANGED pageVars

\* uploadZip, lines 102-110, called at line 121: on success the blob exists;
\* a failure is thrown through uploadAndCleanupRegistrant, so lines 122-123
\* do not run.
UploadZip ==
  /\ pc = "upload"
  /\ \E upOk \in BOOLEAN :
       IF upOk
       THEN /\ remote' = remote \cup {Reg}
            /\ pc' = "unlink"
            /\ UNCHANGED <<fnVars, exitCode, urls, idx, result, leftover, localVars, jobVars>>
       ELSE /\ PackagingCatch("failedUpload")
            /\ UNCHANGED remote
  /\ UNCHANGED <<dirs, zips, pageVars>>

\* line 122: fsp.unlink(tmpZip).catch(() => {})
UnlinkZip ==
  /\ pc = "unlink"
  /\ \E unlinkOk \in BOOLEAN :
       zips' = IF unlinkOk THEN zips \ {Reg} ELSE zips
  /\ pc' = "rimraf"
  /\ UNCHANGED <<fnVars, exitCode, urls, idx, result, dirs, leftover, remote, pageVars,
                 localVars, jobVars>>

\* A mutant of RimrafAndReport: rimraf without its try/catch, a failed
\* removal is thrown to the catch of the packaging block.
RimrafThrows ==
  /\ pc = "rimraf"
  /\ \E rmOk \in BOOLEAN :
       IF rmOk
       THEN /\ dirs' = dirs \ {Reg}
            /\ LeaveJob("uploaded", TRUE)
       ELSE /\ dirs' = dirs
            /\ PackagingCatch("failedUpload")
  /\ UNCHANGED <<zips, remote, pageVars>>

\* rimraf, lines 113-115, called at line 123, then lines 124 and 539-540:
\* the removal swallows its error, the address of the blob is returned and
\* both the upload and the deletion are logged.
RimrafAndReport ==
  /\ pc = "rimraf"
  /\ \E rmOk \in BOOLEAN :
       /\ dirs' = IF rmOk THEN dirs \ {Reg} ELSE dirs
       /\ LeaveJob("uploaded", rmOk)
  /\ UNCHANGED <<zips, remote, pageVars>>

\* ------------------------------------------------------------ specification
Next ==
  \/ LoadModule
  \/ Main
  \/ NavigateHome
  \/ CaptureAttendance
  \/ CaptureContact
  \/ ResolveConfirmation
  \/ ResolveInvoice
  \/ CaptureConfirmation
  \/ CaptureInvoice
  \/ CaptureTicketEmail
  \/ CaptureQr
  \/ ZipDirectory
  \/ UploadZip
  \/ UnlinkZip
  \/ RimrafAndReport
  \/ Finish

Spec == Init /\ [][Next]_vars

Results == {"notstarted", "running", "uploaded", "failedZip", "failedUpload",
            "errorNav", "errorCapture"}

TypeOK ==
  /\ idx \in 1..(Len(urls) + 1)
  /\ pc \in {"start", "attendance", "contact", "resolve_conf", "resolve_inv",
             "confirmation", "invoice", "ticket", "qr", "zip", "upload",
             "unlink", "rimraf", "done", "load", "main", "exited"}
  /\ exitCode \in {0, 1}
  /\ fn = "none"
  /\ \A i \in 1..Len(urls) : result[i] \in Results
  /\ dirs \subseteq RegIds
  /\ leftover \subseteq dirs
  /\ zips \subseteq RegIds
  /\ remote \subseteq RegIds
  /\ loc \in Locs
  /\ menuOpen \in BOOLEAN
  /\ gated \in Gates
  /\ home \in HomePages
  /\ saved \subseteq FileNames


\* ====================================================== functions on a page
\* The functions below are applied on their own to every page of a bounded
\* family; the run of main is not started (RunIdle).
MaxAnchors == 3

\* What the href attribute of an anchor is to a needle: it does not contain
\* it, contains it in lower case, or contains it only in another letter case
\* (/Confirmation/view).
HrefKinds == {"other", "lower", "mixed"}

\* The a[href] elements of the document in DOM order, each visible or not.
AnchorLists ==
  UNION { [1..n -> [href : HrefKinds, visible : BOOLEAN]] : n \in 0..MaxAnchors }

\* The least element of a non-empty set of positions.
First(S) == CHOOSE i \in S : \A j \in S : i <= j

\* findActionHrefByUrlContains, lines 266-289, after the click on the Actions
\* button.  The fast path takes the first element matching a[href*="needle"],
\* a match on the attribute value as written, the needle being lower-cased at
\* 255; it returns it only if that element is visible.  The fallback scans
\* all a[href] in DOM order, lower-casing each href.  The value is the
\* position of the anchor whose absolute address is returned, 0 for null.
FindActionHrefByUrlContains(anchors) ==
  LET quickSel == { i \in DOMAIN anchors : anchors[i].href = "lower" }
      scan == { i \in DOMAIN anchors : anchors[i].href \in {"lower", "mixed"} }
  IN IF quickSel # {} /\ anchors[First(quickSel)].visible
     THEN First(quickSel)
     ELSE IF scan # {} THEN First(scan)
     ELSE 0

\* The send-email page given to captureIframeBySrc: whether the preview
\* iframe appears within the 15 s of waitForSelector, whether its content
\* frame resolves, whether the screenshots succeed.
SendEmailPages ==
  [selectorFound : BOOLEAN, frameResolved : BOOLEAN, fullOk : BOOLEAN,
   frameOk : BOOLEAN]

\* The page given to captureConfirmationEmail: whether it has an iframe,
\* an element matching the email selectors, and whether each screenshot
\* succeeds.
ConfirmationPages ==
  [hasIframe : BOOLEAN, iframeOk : BOOLEAN, hasCand : BOOLEAN,
   candOk : BOOLEAN, fullOk : BOOLEAN]

\* ------------------------------------------------ captureFullPage on a DOM
MaxContainers == 2

\* The value of an inline overflow shorthand as the pair of its longhands
\* overflow-x, overflow-y; the empty string is the pair of empty strings.
NoOverflow == <<"", "">>
Visible == <<"visible", "visible">>

\* el.style.overflow read: the shorthand serialises to the empty string
\* unless both longhands are declared.
GetOverflow(el) ==
  IF el.ox = "" \/ el.oy = "" THEN NoOverflow ELSE <<el.ox, el.oy>>

\* el.style.overflow = v: both longhands are set, or both removed by the
\* empty string.
SetOverflow(el, v) == [el EXCEPT !.ox = v[1], !.oy = v[2]]

\* The value of the attribute __pre_expand__ of an element that has none.
NoPre == [h |-> "", mh |-> "", oy |-> "", o |-> NoOverflow]

\* An element as the page author left it: its inline height, max-height,
\* overflow-x and overflow-y, and whether isScrollable holds for it (its
\* computed overflow-y is auto or scroll, from the inline style or a style
\* sheet, and its content is taller than its box).
Elements ==
  [h : {"", "200px"}, mh : {"", "300px"}, ox : {"", "hidden"},
   oy : {"", "auto"}, scrollable : BOOLEAN, marked : {FALSE}, pre : {NoPre}]

\* A document: the inline overflow of documentElement and of body, the
\* elements below body, the style tags added by scripts.
Pages ==
  [root : {"", "hidden"}, body : {"", "hidden"}, styleTags : {0},
   els : UNION { [1..n -> Elements] : n \in 0..MaxContainers }]

\* hideLeftPanel, lines 158-172: one more style tag.
HideLeftPanel(page) == [page EXCEPT !.styleTags = @ + 1]

\* The body of the for loop of expandScrollableContainers, lines 183-190.
ExpandElement(el) ==
  LET marked == [el EXCEPT !.marked = TRUE,
                   !.pre = [h |-> el.h, mh |-> el.mh, oy |-> el.oy,
                            o |-> GetOverflow(el)]]
      sized == [marked EXCEPT !.h = "scrollHeight_px", !.mh = "none"]
      shown == SetOverflow(sized, Visible)
  IN [shown EXCEPT !.oy = "visible"]

\* expandScrollableContainers, lines 174-192
ExpandScrollableContainers(page) ==
  [page EXCEPT !.root = "visible", !.body = "visible",
     !.els = [i \in DOMAIN page.els |->
                IF page.els[i].scrollable THEN ExpandElement(page.els[i])
                ELSE page.els[i]]]

\* The body of the for loop of restoreScrollableContainers, lines 196-201:
\* overflowY is assigned before the overflow shorthand.
RestoreElement(el) ==
  LET sized == [el EXCEPT !.h = el.pre.h, !.mh = el.pre.mh]
      y == [sized EXCEPT !.oy = el.pre.oy]
      o == SetOverflow(y, el.pre.o)
  IN [o EXCEPT !.marked = FALSE, !.pre = NoPre]

\* restoreScrollableContainers, lines 193-204
RestoreScrollableContainers(page) ==
  [page EXCEPT
     !.els = [i \in DOMAIN page.els |->
                IF page.els[i].marked THEN RestoreElement(page.els[i])
                ELSE page.els[i]]]

\* captureFullPage, lines 206-215, as to the document: the page it leaves
\* and whether it threw.  A rejected page.screenshot leaves the function at
\* line 211.
CaptureFullPageDom(page, shotOk) ==
  LET expanded == ExpandScrollableContainers(HideLeftPanel(page))
  IN IF shotOk
     THEN [page |-> RestoreScrollableContainers(expanded), threw |-> FALSE]
     ELSE [page |-> expanded, threw |-> TRUE]

\* ------------------------------------------------------- stable-state gate
\* waitForSpinnerGone, lines 421-433: waitForFunction rejects when
\* #spinner-overlay is still shown after the timeout; the wait for
\* networkidle swallows its own timeout.  The value: whether it threw.
WaitForSpinnerGone(spinnerGone, networkIdle) ==
  [threw |-> ~spinnerGone]

\* A mutant of GateCall: the call without its .catch, a timeout of the gate
\* is thrown to the caller.
GateCallNoCatch(spinnerGone, networkIdle) ==
  LET w == WaitForSpinnerGone(spinnerGone, networkIdle)
  IN [threw |-> w.threw,
      outcome |-> IF w.threw \/ ~networkIdle THEN "timeout" ELSE "settled"]

\* `await waitForSpinnerGone(page).catch(() => {})`, lines 464 and 485: the
\* rejection is swallowed.  The value: whether the statement threw, and
\* whether the page settled or a wait timed out.
GateCall(spinnerGone, networkIdle) ==
  LET w == WaitForSpinnerGone(spinnerGone, networkIdle)
  IN [threw |-> FALSE,
      outcome |-> IF w.threw \/ ~networkIdle THEN "timeout" ELSE "settled"]

\* Lines 462-465 and 483-486, the branch of a document step with a resolved
\* address: goto, the gate, then the capture, whose result is r.  The value:
\* whether the branch threw, the outcome of the gate ("none" when it was not
\* reached), whether the capture was attempted, and the file written.
HrefBranch(navOk, spinnerGone, networkIdle, r) ==
  IF ~navOk
  THEN [threw |-> TRUE, gate |-> "none", attempted |-> FALSE, file |-> NoFile]
  ELSE LET g == GateCall(spinnerGone, networkIdle)
       IN IF g.threw
          THEN [threw |-> TRUE, gate |-> g.outcome, attempted |-> FALSE,
                file |-> NoFile]
          ELSE [threw |-> r.threw, gate |-> g.outcome, attempted |-> TRUE,
                file |-> r.file]

\* The results captureConfirmationEmail and captureFullPage (06) can have,
\* as to the file and the error.
HrefCaptures ==
  { [file |-> r.file, threw |-> r.threw] : r \in ConfirmationCaptures }
    \cup { [file |-> r.file, threw |-> r.threw] : r \in FullPageCaptures(F06) }

\* What the resolved address gives and how the page behaves.
HrefPages ==
  [navOk : BOOLEAN, spinnerGone : BOOLEAN, networkIdle : BOOLEAN,
   capture : HrefCaptures]

\* ------------------------------------------------- click fallback, pop-up
\* The try block of a click fallback, lines 468-478 and 489-499, as to the
\* pop-up: c is what ClickFallback gives, captureThrew whether the capture
\* of the target threw.  A pop-up is closed at line 477 / 498, after the
\* capture has returned; an error thrown before that line goes to the
\* catch {} of line 479 / 500.  The value: whether the capture was reached,
\* whether an error was caught, and whether the pop-up is still open.  No
\* later statement of the run consults a pop-up, so the run itself does not
\* keep them.
ClickFallbackTry(c, captureThrew) ==
  IF ~c.reached
  THEN [reached |-> FALSE, caught |-> TRUE, popupOpen |-> FALSE]
  ELSE IF captureThrew
  THEN [reached |-> TRUE, caught |-> TRUE, popupOpen |-> c.target = "popup"]
  ELSE [reached |-> TRUE, caught |-> FALSE, popupOpen |-> FALSE]

\* The page a click fallback runs on, and how the click and the capture go.
FallbackPages ==
  [buttonVisible : BOOLEAN, itemPresent : BOOLEAN, open : BOOLEAN,
   clickOk : BOOLEAN, reopen : BOOLEAN, target : Targets,
   captureThrew : BOOLEAN]

\* The variables of the run of main while a function is applied on its own.
RunIdle ==
  /\ urls = <<>>
  /\ idx = 1
  /\ pc = "fn"
  /\ result = <<>>
  /\ dirs = {}
  /\ leftover = {}
  /\ zips = {}
  /\ remote = {}
  /\ loc = "other"
  /\ menuOpen = FALSE
  /\ gated = "none"
  /\ home = NoHome
  /\ confirmationHref = Null
  /\ invoiceHref = Null
  /\ joblog = {}
  /\ saved = {}
  /\ exitCode = 0

runVars == <<urls, idx, pc, result, dirs, leftover, zips, remote, loc, gated,
             menuOpen, home, confirmationHref, invoiceHref, joblog, saved,
             exitCode>>

InitFn ==
  /\ RunIdle
  /\ ret = <<>>
  /\ returned = FALSE
  /\ \/ fn = "findActionHrefByUrlContains" /\ arg \in AnchorLists
     \/ fn = "captureIframeBySrc" /\ arg \in SendEmailPages
     \/ fn = "captureConfirmationEmail" /\ arg \in ConfirmationPages
     \/ fn = "captureFullPage" /\ arg \in [page : Pages, shotOk : BOOLEAN]
     \/ fn = "hrefBranch" /\ arg \in HrefPages
     \/ fn = "clickFallback" /\ arg \in FallbackPages

\* The function returns (or throws) with the value v.
Return(v) ==
  /\ ~returned
  /\ ret' = v
  /\ returned' = TRUE
  /\ UNCHANGED <<fn, arg, runVars>>

CallFindActionHrefByUrlContains ==
  /\ fn = "findActionHrefByUrlContains"
  /\ Return(FindActionHrefByUrlContains(arg))

CallCaptureIframeBySrc ==
  /\ fn = "captureIframeBySrc"
  /\ Return(CaptureIframeBySrc(arg.selectorFound, arg.frameResolved,
                               arg.fullOk, arg.frameOk))

CallCaptureConfirmationEmail ==
  /\ fn = "captureConfirmationEmail"
  /\ Return(CaptureConfirmationEmail(arg.hasIframe, arg.iframeOk, arg.hasCand,
                                     arg.candOk, arg.fullOk))

CallCaptureFullPage ==
  /\ fn = "captureFullPage"
  /\ Return(CaptureFullPageDom(arg.page, arg.shotOk))

CallHrefBranch ==
  /\ fn = "hrefBranch"
  /\ Return(HrefBranch(arg.navOk, arg.spinnerGone, arg.networkIdle,
                       arg.capture))

CallClickFallback ==
  /\ fn = "clickFallback"
  /\ Return(ClickFallbackTry(
              ClickFallback(arg.buttonVisible, arg.itemPresent, arg.open,
                            arg.clickOk, arg.reopen, arg.target),
              arg.captureThrew))

NextFn ==
  \/ CallFindActionHrefByUrlContains
  \/ CallCaptureIframeBySrc
  \/ CallCaptureConfirmationEmail
  \/ CallCaptureFullPage
  \/ CallHrefBranch
  \/ CallClickFallback

SpecFn == InitFn /\ [][NextFn]_vars


\* ================================================================== claims
JobPcs == {"attendance", "contact", "resolve_conf", "resolve_inv",
           "confirmation", "invoice", "ticket", "qr", "zip", "upload",
           "unlink", "rimraf"}
AfterConfirmation == {"invoice", "ticket", "qr", "zip", "upload", "unlink",
                      "rimraf"}
AfterInvoice == AfterConfirmation \ {"invoice"}
AfterTicket == AfterInvoice \ {"ticket"}
Entities == 1..Len(urls)
Failed == {"failedZip", "failedUpload", "errorNav", "errorCapture"}

\* The status of the artifact of kind k in what the current job recorded:
\* missing without a file, degraded when the file is a fallback (the __full /
\* _full name, or a capture of the click fallback), captured otherwise.
Degraded(k) ==
  \/ k = "confirmation" /\ F05full \in saved
  \/ k = "ticket" /\ F03full \in saved
  \/ k \in {"confirmation", "invoice"}
       /\ ("warn_click_fallback_" \o k) \in joblog
Status(k) ==
  IF SavedOf(k) = {} THEN "missing"
  ELSE IF Degraded(k) THEN "degraded"
  ELSE "captured"

\* ---- C1
\* C1 (as claimed): after a run, for every entity whose packaging ran, the
\* local directory is absent if and only if the log reports a successful
\* upload for it.
C1_DirAbsentIffUploaded ==
  pc = "done" =>
    \A i \in Entities :
      result[i] \in {"uploaded", "failedZip", "failedUpload"} =>
        ((RegIdOf(urls[i]) \notin dirs) <=> (result[i] = "uploaded"))

\* ---- C2
\* C2: when the upload fails, the directory and the archive of the entity are
\* both still there and nothing was deleted, and the entity is reported as
\* failed with the upload error.
C2_UploadFailureKeepsLocal ==
  [][ (pc = "upload" /\ pc' # "unlink") =>
        /\ result'[idx] = "failedUpload"
        /\ dirs' = dirs /\ Reg \in dirs'
        /\ zips' = zips /\ Reg \in zips'
        /\ Reg \in leftover'
        /\ remote' = remote ]_vars

C2_Witness ==
  \E i \in Entities :
    /\ result[i] = "failedUpload"
    /\ RegIdOf(urls[i]) \in (dirs \cap zips \cap leftover)

\* ---- C3
\* C3: whatever failed for an entity, every later entity of the list is still
\* started: when the run is over no entity is left unstarted, and the loop
\* never ends before the end of the list.
C3_FailureIsolated ==
  /\ pc = "done" => \A i \in Entities : result[i] # "notstarted"
  /\ \A i \in Entities :
       (result[i] \in Failed /\ i + 1 \in Entities /\ pc \in JobPcs)
         => result[i + 1] # "notstarted"

C3_Witness ==
  /\ pc = "done"
  /\ \E i \in Entities :
       /\ result[i] \in Failed
       /\ i + 1 \in Entities
       /\ result[i + 1] = "uploaded"

\* ---- C4
\* The evidence step that follows each evidence step.
NextEvidenceStep(p) ==
  CASE p = "attendance" -> "contact"
    [] p = "contact" -> "resolve_conf"
    [] p = "confirmation" -> "invoice"
    [] p = "invoice" -> "ticket"
    [] p = "ticket" -> "qr"

\* C4 (as claimed): an evidence step that ends in any way other than a
\* navigation failure is followed by the next evidence step.
C4_StepFailureNeverSkipsNext ==
  [][ (pc \in {"attendance", "contact", "confirmation", "invoice", "ticket"}
       /\ pc' # pc /\ result'[idx] # "errorNav")
        => pc' = NextEvidenceStep(pc) ]_vars

\* ---- C5
\* C5 (as claimed): when a navigation fails for an entity that has already
\* captured something, the packaging of what was captured is attempted next.
C5_NavFailureStillPackages ==
  [][ (idx \in Entities /\ result[idx] # "errorNav"
       /\ result'[idx] = "errorNav" /\ saved # {}) => pc' = "zip" ]_vars


\* ---- C6
\* C6 (as claimed): when packaging starts, the job has put at least one
\* artifact of each of the six evidence types into its directory.
C6_AllSixTypesAtPackaging ==
  pc = "zip" => \A k \in Kinds : SavedOf(k) # {}

\* C6 (amended): when packaging starts, the job has saved an attendance and a
\* contact artifact, and a confirmation (an invoice) artifact if the address
\* of that document was resolved; a click fallback, the ticket-email step and
\* the QR step may have saved nothing.
C6_RequiredTypesAtPackaging ==
  pc = "zip" =>
    /\ SavedOf("attendance") # {}
    /\ SavedOf("contact") # {}
    /\ confirmationHref # Null => SavedOf("confirmation") # {}
    /\ invoiceHref # Null => SavedOf("invoice") # {}

C6_Witness ==
  /\ pc = "zip"
  /\ confirmationHref # Null
  /\ invoiceHref = Null
  /\ saved = {F01, F02, F05email}

C8_MenuItemFallbackNeverMissing ==
  [][ (pc = "invoice" /\ pc' = "ticket" /\ invoiceHref = Null
       /\ home.inv \in NeedsMenu /\ loc = "other")
        => F06 \in saved' ]_vars

\* ---- C9
\* C9 (as claimed): after the ticket-email step, the warning that the email
\* iframe was not found and the full page was saved instead is in the log if
\* and only if the fallback file was saved; and likewise for the confirmation.
C9_WarningIffFallback ==
  /\ pc \in AfterTicket =>
       ("warn_iframe_not_found_full_page" \in joblog <=> F03full \in saved)
  /\ pc \in AfterConfirmation =>
       ("warn_no_email_body_full_page" \in joblog <=> F05full \in saved)

\* ---- C10
\* An evidence type was attempted by the current job: its step has returned
\* (attendance, contact, confirmation, invoice), a line of the ticket-email
\* step is in the log, or the QR file was saved (the QR step is silent).
Attempted(k) ==
  CASE k = "attendance" -> pc \in JobPcs \ {"attendance"}
    [] k = "contact" -> pc \in JobPcs \ {"attendance", "contact"}
    [] k = "confirmation" -> pc \in AfterConfirmation
    [] k = "invoice" -> pc \in AfterInvoice
    [] k = "ticket" ->
         joblog \cap {"ok_" \o F03, "warn_no_content_frame",
                      "warn_could_not_capture_ticket",
                      "warn_iframe_not_found_full_page"} # {}
    [] k = "qr" -> F04 \in saved

\* C10 (as claimed): at every point of a job whose directory held nothing
\* before, the directory has exactly one raster file for each evidence type
\* attempted so far.
C10_ExactlyOneFilePerAttemptedType ==
  (pc \in JobPcs /\ Reg \notin leftover) =>
    \A k \in Kinds : Attempted(k) => Cardinality(SavedOf(k)) = 1

\* ---- C11
\* The statements of processRegistrant in program order, lines 438-538.
JobOrder == <<"attendance", "contact", "resolve_conf", "resolve_inv",
              "confirmation", "invoice", "ticket", "qr", "zip", "upload",
              "unlink", "rimraf">>
PosOf(p) == CHOOSE i \in 1..Len(JobOrder) : JobOrder[i] = p

\* The evidence step of the fixed order a statement belongs to: resolving
\* the address of a document is the first half of the step of that document.
StepRank(p) ==
  CASE p = "attendance" -> 1
    [] p = "contact" -> 2
    [] p \in {"resolve_conf", "confirmation"} -> 3
    [] p \in {"resolve_inv", "invoice"} -> 4
    [] p = "ticket" -> 5
    [] p = "qr" -> 6
    [] p \in {"zip", "upload", "unlink", "rimraf"} -> 7

\* C11 (as claimed): within a job no step is attempted before an earlier
\* step of the fixed order has finished: the job never goes back from a
\* statement of a later step to a statement of an earlier one.
C11_NoStepBeforeEarlierFinished ==
  [][ (pc \in JobPcs /\ pc' \in JobPcs) => StepRank(pc') >= StepRank(pc) ]_vars

\* C11 (amended): a job starts with the home navigation, then runs attendance,
\* contact, the resolution of the confirmation address, the resolution of the
\* invoice address, the confirmation capture, the invoice capture, the
\* ticket-email step, the QR step and packaging, each only after the one
\* before has returned, or it leaves the job; packaging starts only from the
\* QR step; and the page stays the registrant page from the home navigation
\* until the contact capture has returned.
C11_FixedStepOrder ==
  [][ /\ (pc = "start" /\ pc' # pc) => pc' \in {"attendance", "done"}
      /\ (pc \in JobPcs /\ pc' # pc) =>
           \/ pc' = "start" /\ idx' = idx + 1
           \/ PosOf(pc) < Len(JobOrder) /\ pc' = JobOrder[PosOf(pc) + 1]
      /\ pc' = "zip" => pc = "qr"
      /\ pc \in {"attendance", "contact"} => (loc = "home" /\ loc' = loc)
    ]_vars

C11_Witness ==
  /\ pc = "zip"
  /\ loc = "other"
  /\ {F01, F02, F05email, F06, F03, F04} \subseteq saved

\* ---- C12
CapturePcs == {"attendance", "contact", "confirmation", "invoice", "ticket",
               "qr"}
Finished == Failed \cup {"uploaded"}

\* C12: the entities are processed one at a time in input order: every
\* entity before the current one has finished or failed, every entity after
\* it is not started, and capture steps run for the current one only; an
\* archive is created or uploaded only by the packaging statements of the
\* current entity, which write no evidence file, and evidence files are
\* written only by capture steps, which create and upload no archive.
C12_OneAtATimeArchiveAfterCaptures ==
  /\ [](\A i \in Entities :
          /\ i < idx => result[i] \in Finished
          /\ i > idx => result[i] = "notstarted"
          /\ result[i] = "running" => (i = idx /\ pc \in JobPcs))
  /\ [][ /\ (zips' # zips \/ remote' # remote) =>
              /\ pc \in {"zip", "upload", "unlink"}
              /\ zips' \cup remote' \subseteq zips \cup remote \cup {Reg}
              /\ saved' \subseteq saved
         /\ (saved' \ saved # {}) =>
              /\ pc \in CapturePcs
              /\ zips' = zips /\ remote' = remote ]_vars

C12_Witness ==
  /\ idx = 2
  /\ pc = "upload"
  /\ result[1] = "uploaded"
  /\ saved # {}
  /\ Reg \in zips

\* ---- C13
\* C13: once the upload of the archive of the current entity has succeeded,
\* the entity is reported as uploaded when the job is left, whether or not
\* the archive and the directory could be deleted; the blob stays.
C13_CleanupNeverMasksUpload ==
  [][ (pc \in {"unlink", "rimraf"} /\ pc' \notin {"unlink", "rimraf"}) =>
        /\ result'[idx] = "uploaded"
        /\ idx' = idx + 1
        /\ Reg \in remote' ]_vars

\* An entity reported as uploaded whose archive and directory are both still
\* there: both deletions failed.
C13_Witness ==
  \E i \in Entities :
    /\ result[i] = "uploaded"
    /\ i < idx
    /\ RegIdOf(urls[i]) \in (zips \cap dirs \cap remote)
    /\ \A j \in Entities : j # i => RegIdOf(urls[j]) # RegIdOf(urls[i])

\* ---- C14
\* C14 (as claimed): when the process has ended with a non-zero status, the
\* caller supplied no usable entity.
C14_NonZeroExitOnlyWithoutEntities ==
  (pc \in {"exited", "done"} /\ exitCode # 0) => Len(urls) = 0

\* ---- C15
\* C15 (as claimed): once the job of an entity has been started, whether the
\* home navigation succeeded or not, the directory of the entity exists; after
\* a failed home navigation it is there and empty.
C15_DirectoryForEveryEntity ==
  [][ (pc = "start" /\ idx \in Entities /\ pc' # "done") =>
        /\ Reg \in dirs'
        /\ (result'[idx] = "errorNav" => Reg \notin leftover') ]_vars

\* ---- C16
\* The anchors whose address contains the needle, letter case ignored.
Matching(anchors) ==
  { i \in DOMAIN anchors : anchors[i].href \in {"lower", "mixed"} }

\* C16 (as claimed): the resolver returns the address of the first anchor in
\* DOM order whose address contains the needle, letter case ignored, and
\* null exactly when no anchor matches.
C16_FirstDomOrderMatchWins ==
  (fn = "findActionHrefByUrlContains" /\ returned) =>
    ret = IF Matching(arg) = {} THEN 0 ELSE First(Matching(arg))

\* ---- C17
\* C17 (as claimed): on the registrant page with a visible Actions control, a
\* resolver call or a menu-open call made while the menu is open leaves it
\* open: after the resolver call for the confirmation has opened the menu, it
\* is still open after the resolver call for the invoice.
C17_OpeningIsIdempotent ==
  [][ (pc = "resolve_inv" /\ loc = "home" /\ home.hasActions /\ menuOpen)
        => menuOpen' ]_vars

\* ---- C18
\* C18 (as claimed): when the preview iframe does not appear within the wait
\* and the page itself can be captured, captureIframeBySrc does not throw and
\* saves the full-page file with its warning, so the ticket-email step ends
\* with a degraded artifact.
C18_FrameTimeoutFallsBackToFullPage ==
  (fn = "captureIframeBySrc" /\ returned /\ ~arg.selectorFound /\ arg.fullOk)
    => /\ ~ret.threw
       /\ ret.file = F03full
       /\ ret.log # {}

\* ---- C19
\* C19 (as claimed): the selectors come before the frame in the chain: on a
\* page that has both an element matching the email selectors and an iframe,
\* each of which can be captured, the file shows the matching element.
C19_RegionBeforeFrame ==
  (fn = "captureConfirmationEmail" /\ returned
   /\ arg.hasCand /\ arg.candOk /\ arg.hasIframe /\ arg.iframeOk)
    => ret.surface = "region"

\* ---- C20
\* The inline styles and marker attributes of a document.
InlineStyles(page) ==
  [root |-> page.root, body |-> page.body,
   els |-> [i \in DOMAIN page.els |->
              [h |-> page.els[i].h, mh |-> page.els[i].mh,
               ox |-> page.els[i].ox, oy |-> page.els[i].oy,
               marked |-> page.els[i].marked]]]

\* C20 (as claimed): when captureFullPage has returned or thrown, every
\* inline style of the document (height, max-height and overflow of each
\* container, overflow of documentElement and body) is what it was before
\* the call, and no element carries the marker attribute.
C20_FullPageRestoresInlineStyles ==
  (fn = "captureFullPage" /\ returned) =>
    InlineStyles(ret.page) = InlineStyles(arg.page)

\* ---- C21
\* C21: when the page of a resolved address was reached and the gate timed
\* out (the spinner is still shown, or the network never went idle), the gate
\* does not fail the branch: the capture that follows is attempted, and the
\* branch writes the file and throws exactly as the capture does.
C21_GateTimeoutNeverFailsCaller ==
  (fn = "hrefBranch" /\ returned /\ arg.navOk
   /\ (~arg.spinnerGone \/ ~arg.networkIdle))
    => /\ ret.gate = "timeout"
       /\ ret.attempted
       /\ ret.threw = arg.capture.threw
       /\ ret.file = arg.capture.file

C21_Witness ==
  /\ fn = "hrefBranch"
  /\ returned
  /\ ~arg.spinnerGone
  /\ ret.gate = "timeout"
  /\ ret.file \in {F05email, F06}

\* ---- C22
\* C22 (as claimed, counting the wait for networkidle alone as a run of the
\* gate): whenever a capture step writes an evidence file, some wait of the
\* stable-state gate has been run on the page since its last navigation.
C22_GateBeforeEveryCapture ==
  [][ (pc \in CapturePcs /\ saved' \ saved # {}) => gated' # "none" ]_vars

\* ---- C23
\* The addresses of the list are pairwise distinct.
DistinctAddresses ==
  \A i \in Entities, j \in Entities : i # j => urls[i] # urls[j]

\* C23 (as claimed): in a run over pairwise distinct addresses, the upload of
\* an entity never writes a blob name that an earlier entity of the run has
\* written, and its job never starts in a directory an earlier entity has
\* left.
C23_NoSharedDirectoryOrKey ==
  [][ DistinctAddresses =>
        /\ (pc = "upload" /\ pc' = "unlink") => Reg \notin remote
        /\ (pc = "start" /\ pc' = "attendance") => Reg \notin dirs ]_vars

\* ---- C24
\* C24 (as claimed): when the try block of a click fallback has ended, with
\* the capture done or with an error caught, no pop-up opened by it is still
\* open.
C24_NoPopupLeftOpen ==
  (fn = "clickFallback" /\ returned) => ~ret.popupOpen

====
